---- MODULE Spec2Model ----
(***************************************************************************)
(* Cutting-stock optimisation engine of woodie-planner:                    *)
(*   lib/bin-packer.ts     packPiecesIntoStock, calculateCutSequence       *)
(*   lib/stock-matcher.ts  matchPiecesToStock and the policy wrappers      *)
(*   lib/optimizer.ts      optimizeCuts                                    *)
(* One run of optimizeCuts is a behaviour: Init draws the call's arguments,*)
(* each action is one step of the code (an entry, one sheet iteration of   *)
(* the packing loop, a return).                                            *)
(*                                                                         *)
(* Lengths are in millimetres.  A piece id is a sequence of the tokens     *)
(* that "_" separates in the id string: <<"d","x">> is the string "d_x".   *)
(* A percentage n/d*100 is kept exact as [num |-> 100*n, den |-> d].       *)
(***************************************************************************)
EXTENDS Integers, Sequences, FiniteSets, TLC

\* ------------------------------------------------------------------ bounds
MaxPieces == 2
MaxSheets == 2
MaxPlaced == 3
MaxRuns == 2
MaxEdits == 2

\* ------------------------------------------------------------------ inputs
Piece(id, w, h, q, c, t) ==
    [id |-> id, width |-> w, height |-> h, quantity |-> q, category |-> c, thickness |-> t]

Stock(id, w, h, t, a) ==
    [id |-> id, width |-> w, height |-> h, thickness |-> t, available |-> a]

\* The demand pieces a call may name: pieces that need a rotation on the
\* narrow sheets, both thicknesses, several instances per piece, an id that
\* holds "_", and an id that is the first token of that one.
PieceCatalog ==
    { Piece(<<"a">>,      12,  6, 2, "side",  18),
      Piece(<<"d">>,       6,  6, 1, "top",   18),
      Piece(<<"c">>,       6, 12, 1, "back",  12),
      Piece(<<"d", "x">>, 12, 12, 2, "shelf", 18) }

\* The stock sheets a call may name: two thicknesses, narrow sheets, an
\* unavailable sheet.
StockCatalog ==
    { Stock("s1", 12, 12, 18, TRUE),
      Stock("s2",  6, 12, 18, TRUE),
      Stock("s4", 12, 12, 18, FALSE),
      Stock("s5", 12,  6, 12, TRUE) }

\* Inputs that break the preconditions: a piece of quantity 0, and a sheet of
\* width 0 that is marked unavailable.
DegeneratePieces == { Piece(<<"z">>, 6, 6, 0, "top", 18) }

DegenerateStock == { Stock("s0", 0, 12, 18, FALSE) }

\* Where calculateCutSequence may be handed a placement: a staircase of
\* 10 x 6 rectangles, rows 6 mm apart, so that rows within and beyond the
\* 10 mm tolerance both occur.
PlacementOrigins == {0, 10, 20} \X {0, 6, 12}

\* A mode value that is none of the six named ones.
OtherModes == {"fewest-cuts"}

Modes ==
    {"minimize-waste", "simplify-cuts", "grain-direction",
     "minimize-sheets", "largest-first", "edge-alignment"}

\* The cut lists the panel may hand to runOptimization, and the sizes the
\* stock form may hand to addStock and updateStock.
StoreCutLists ==
    { <<>>,
      << Piece(<<"a">>, 12, 6, 2, "side", 18) >> }

StoreSizes == { <<12, 12>>, <<6, 12>> }

\* The modes the settings panel may hand to setOptimizationMode.
StoreModes == {"minimize-waste", "minimize-sheets"}

\* The value of a field an object does not have.
Undefined == 0

\* Sequences over S of length at most n in which no element repeats.
DistinctSeqs(S, n) ==
    UNION { {s \in [1..k -> S] : \A i, j \in 1..k : i # j => s[i] # s[j]} : k \in 0..n }

\* ------------------------------------------------------------------ helpers
Range(s) == {s[i] : i \in 1..Len(s)}

RECURSIVE SumSeq(_)
SumSeq(s) == IF s = <<>> THEN 0 ELSE Head(s) + SumSeq(Tail(s))

RECURSIVE Concat(_)
Concat(ss) == IF ss = <<>> THEN <<>> ELSE Head(ss) \o Concat(Tail(ss))

\* Array.prototype.sort: before[i][j] tells whether the comparator puts s[i]
\* before s[j] (returns a negative number).  The sort is stable, so elements
\* the comparator does not separate keep their input order.
SortBy(s, before) ==
    LET n == Len(s)
        pos(i) == 1 + Cardinality({j \in 1..n :
                        \/ before[j][i]
                        \/ (~before[i][j] /\ j < i)})
    IN  [k \in 1..n |-> s[CHOOSE i \in 1..n : pos(i) = k]]

Area(r) == r.width * r.height
Perimeter(r) == 2 * (r.width + r.height)

\* String.prototype.localeCompare on the category names, as a rank.
CategoryRank(c) ==
    CASE c = "back" -> 1 [] c = "bottom" -> 2 [] c = "door" -> 3
      [] c = "drawer-front" -> 4 [] c = "shelf" -> 5 [] c = "side" -> 6
      [] c = "tabletop" -> 7 [] c = "top" -> 8

Pct(n, d) == [num |-> 100 * n, den |-> d]
ZeroPct == [num |-> 0, den |-> 1]

\* ------------------------------------------------- binpackingjs (BP2D)
\* new Box(width, height): the library's box, not yet placed.  The wrapper
\* never passes constrainRotation, so every box may be turned by the packer.
NewBox(w, h) == [width |-> w, height |-> h, x |-> 0, y |-> 0, packed |-> FALSE]

Overlaps(x, y, w, h, b) ==
    /\ x < b.x + b.width
    /\ b.x < x + w
    /\ y < b.y + b.height
    /\ b.y < y + h

\* One bin.insert: an unplaced box is put, as it is or turned by 90 degrees,
\* at the corner of a free rectangle of the bin (its x is 0 or the right edge
\* of a placed box, its y is 0 or the lower edge of a placed box), inside the
\* bin and clear of every placed box.  Which fitting box and which free
\* rectangle the heuristic picks is left open.
PackerMoves(st, W, H) ==
    LET n      == Len(st.boxes)
        placed == {st.boxes[j] : j \in Range(st.bin)}
        xs     == {0} \cup {b.x + b.width : b \in placed}
        ys     == {0} \cup {b.y + b.height : b \in placed}
        Turns(b) == {<<b.width, b.height>>, <<b.height, b.width>>}
        Fits(d, x, y) ==
            /\ x + d[1] <= W
            /\ y + d[2] <= H
            /\ \A b \in placed : ~Overlaps(x, y, d[1], d[2], b)
        Put(i, d, x, y) ==
            [boxes |-> [st.boxes EXCEPT ![i] =
                          [width |-> d[1], height |-> d[2], x |-> x, y |-> y, packed |-> TRUE]],
             bin   |-> Append(st.bin, i)]
    IN  UNION { UNION { { Put(i, d, p[1], p[2]) : p \in {q \in xs \X ys : Fits(d, q[1], q[2])} } :
                        d \in Turns(st.boxes[i]) } :
                i \in {j \in 1..n : ~st.boxes[j].packed} }

\* packer.pack(boxes) on one bin: inserts boxes until no unplaced box fits
\* any free rectangle.  The set of final (boxes, bin.boxes) the call can leave.
RECURSIVE PackerRuns(_, _, _)
PackerRuns(st, W, H) ==
    LET next == PackerMoves(st, W, H)
    IN  IF next = {} THEN {st}
        ELSE UNION { PackerRuns(s2, W, H) : s2 \in next }

PackerPack(boxes, W, H) == PackerRuns([boxes |-> boxes, bin |-> <<>>], W, H)

\* ------------------------------------------------- lib/bin-packer.ts
\* The id of one box, `${piece.id}_${i}`: the piece's tokens and the index.
BoxId(piece, i) == [id |-> piece.id, i |-> i]

\* boxId.split("_")[0]: the id string up to its first "_".
OriginalPieceId(boxId) == <<Head(boxId.id)>>

\* boxes / boxMetadata: one entry per instance, pieces in list order.
BoxMetadata(cutPieces) ==
    Concat([k \in 1..Len(cutPieces) |->
              [j \in 1..cutPieces[k].quantity |->
                 [id |-> BoxId(cutPieces[k], j - 1), piece |-> cutPieces[k]]]])

\* boxes.findIndex(...): the first box not yet taken that has the width,
\* height, x and y of the bin's box; 0 when there is none.
FindBoxIndex(boxes, packedIndices, box) ==
    LET hits == {idx \in 1..Len(boxes) :
                    /\ idx \notin packedIndices
                    /\ boxes[idx].width = box.width
                    /\ boxes[idx].height = box.height
                    /\ boxes[idx].x = box.x
                    /\ boxes[idx].y = box.y}
    IN  IF hits = {} THEN 0 ELSE CHOOSE idx \in hits : \A o \in hits : idx <= o

\* Mutant: the placement's x and y taken from the wrong coordinate.
PlacedPieceTransposed(meta, box, seqIndex) ==
    [cutPieceId  |-> meta.id,
     x           |-> box.y,
     y           |-> box.x,
     width       |-> box.width,
     height      |-> box.height,
     rotated     |-> box.width # meta.piece.width,
     cutSequence |-> seqIndex]

\* Mutant: the placement keeps the piece's own width and height although the
\* packer turned the box.
PlacedPieceUnturned(meta, box, seqIndex) ==
    [cutPieceId  |-> meta.id,
     x           |-> box.x,
     y           |-> box.y,
     width       |-> meta.piece.width,
     height      |-> meta.piece.height,
     rotated     |-> box.width # meta.piece.width,
     cutSequence |-> seqIndex]

PlacedPiece(meta, box, seqIndex) ==
    [cutPieceId  |-> meta.id,
     x           |-> box.x,
     y           |-> box.y,
     width       |-> box.width,
     height      |-> box.height,
     rotated     |-> box.width # meta.piece.width,
     cutSequence |-> seqIndex]

\* packedBin.boxes.forEach: from position k of bin.boxes on.
RECURSIVE CollectPacked(_, _, _, _, _)
CollectPacked(run, meta, k, packedIndices, packedPieces) ==
    IF k > Len(run.bin) THEN [indices |-> packedIndices, pieces |-> packedPieces]
    ELSE LET box      == run.boxes[run.bin[k]]
             boxIndex == FindBoxIndex(run.boxes, packedIndices, box)
         IN  IF boxIndex > 0
             THEN CollectPacked(run, meta, k + 1, packedIndices \cup {boxIndex},
                                Append(packedPieces, PlacedPiece(meta[boxIndex], box, k)))
             ELSE CollectPacked(run, meta, k + 1, packedIndices, packedPieces)

\* A sequence without its later duplicates (insertion order of a Set or Map).
RECURSIVE Dedup(_)
Dedup(s) ==
    IF s = <<>> THEN <<>>
    ELSE LET front == Dedup(SubSeq(s, 1, Len(s) - 1))
             last  == s[Len(s)]
         IN  IF last \in Range(front) THEN front ELSE Append(front, last)

\* Lines 95-123: the boxes not packed, grouped back into pieces.
UnpackedPieces(cutPieces, meta, packedIndices) ==
    LET unpackedBoxIds == Dedup(SelectSeq([k \in 1..Len(meta) |-> [k |-> k, id |-> meta[k].id]],
                                          LAMBDA e : e.k \notin packedIndices))
        ids    == [k \in 1..Len(unpackedBoxIds) |-> unpackedBoxIds[k].id]
        boxIds == Dedup(ids)
        keys   == Dedup([k \in 1..Len(boxIds) |-> OriginalPieceId(boxIds[k])])
        Count(key) == Cardinality({k \in 1..Len(boxIds) : OriginalPieceId(boxIds[k]) = key})
        Found(key) == {k \in 1..Len(cutPieces) : cutPieces[k].id = key}
        First(key) == cutPieces[CHOOSE k \in Found(key) : \A o \in Found(key) : k <= o]
        kept   == SelectSeq(keys, LAMBDA key : Found(key) # {})
    IN  [k \in 1..Len(kept) |-> [First(kept[k]) EXCEPT !.quantity = Count(kept[k])]]

\* Mutant: the waste taken relative to the used area, not the sheet's area.
PackingResultOverUsed(cutPieces, stock, allowRotation, run) ==
    LET meta      == BoxMetadata(cutPieces)
        got       == CollectPacked(run, meta, 1, {}, <<>>)
        totalArea == stock.width * stock.height
        usedArea  == SumSeq([k \in 1..Len(got.pieces) |->
                               got.pieces[k].width * got.pieces[k].height])
    IN  [packedPieces   |-> got.pieces,
         unpackedPieces |-> UnpackedPieces(cutPieces, meta, got.indices),
         wastePercentage |-> Pct(totalArea - usedArea, IF usedArea = 0 THEN 1 ELSE usedArea),
         totalArea      |-> totalArea,
         usedArea       |-> usedArea]

\* packPiecesIntoStock, given what packer.pack left behind.  allowRotation is
\* a parameter of the function that its body never reads.
PackingResult(cutPieces, stock, allowRotation, run) ==
    LET meta      == BoxMetadata(cutPieces)
        got       == CollectPacked(run, meta, 1, {}, <<>>)
        totalArea == stock.width * stock.height
        usedArea  == SumSeq([k \in 1..Len(got.pieces) |->
                               got.pieces[k].width * got.pieces[k].height])
    IN  [packedPieces   |-> got.pieces,
         unpackedPieces |-> UnpackedPieces(cutPieces, meta, got.indices),
         wastePercentage |-> Pct(totalArea - usedArea, totalArea),
         totalArea      |-> totalArea,
         usedArea       |-> usedArea]

\* Mutant: after a throw the pieces are not handed back.
PackingFailedDropsPieces(cutPieces, stock) ==
    [packedPieces    |-> <<>>,
     unpackedPieces  |-> <<>>,
     wastePercentage |-> Pct(1, 1),
     totalArea       |-> stock.width * stock.height,
     usedArea        |-> 0]

\* packPiecesIntoStock, lines 139-150: what the catch block returns when
\* anything inside the try block threw.
PackingFailed(cutPieces, stock) ==
    [packedPieces    |-> <<>>,
     unpackedPieces  |-> cutPieces,
     wastePercentage |-> Pct(1, 1),
     totalArea       |-> stock.width * stock.height,
     usedArea        |-> 0]

\* boxes: the library boxes handed to packer.pack, one per instance.
Boxes(cutPieces) ==
    LET meta == BoxMetadata(cutPieces)
    IN  [k \in 1..Len(meta) |-> NewBox(meta[k].piece.width, meta[k].piece.height)]

\* calculateCutSequence: rows top to bottom (10 mm tolerance), left to right.
CutBefore(a, b) ==
    IF (IF a.y - b.y < 0 THEN b.y - a.y ELSE a.y - b.y) < 10
    THEN a.x - b.x < 0
    ELSE a.y - b.y < 0

CalculateCutSequence(pieces) ==
    LET sorted == SortBy(pieces, [i \in 1..Len(pieces) |-> [j \in 1..Len(pieces) |->
                                     CutBefore(pieces[i], pieces[j])]])
    IN  [k \in 1..Len(sorted) |-> [sorted[k] EXCEPT !.cutSequence = k]]

\* Whether a comparator is a consistent one for Array.prototype.sort: a strict
\* weak ordering of the n positions.
ConsistentComparator(n, before) ==
    LET Tie(i, j) == ~before[i][j] /\ ~before[j][i]
    IN  /\ \A i \in 1..n : ~before[i][i]
        /\ \A i, j, k \in 1..n : (before[i][j] /\ before[j][k]) => before[i][k]
        /\ \A i, j, k \in 1..n : (Tie(i, j) /\ Tie(j, k)) => Tie(i, k)

Reorderings(s) ==
    LET n == Len(s)
    IN  { [k \in 1..n |-> s[f[k]]] :
            f \in {g \in [1..n -> 1..n] : \A i, j \in 1..n : i # j => g[i] # g[j]} }

\* What Array.prototype.sort may leave: the stable order when the comparator
\* is consistent, and otherwise an order the engine is free to choose.
SortOutcomes(s, before) ==
    IF ConsistentComparator(Len(s), before) THEN {SortBy(s, before)} ELSE Reorderings(s)

\* Mutant: the ranks counted from 0.
CalculateCutSequenceZeroBased(pieces) ==
    LET cmp == [i \in 1..Len(pieces) |-> [j \in 1..Len(pieces) |->
                  CutBefore(pieces[i], pieces[j])]]
    IN  { [k \in 1..Len(sorted) |-> [sorted[k] EXCEPT !.cutSequence = k - 1]] :
            sorted \in SortOutcomes(pieces, cmp) }

\* calculateCutSequence called on any list of placements: every list it may
\* return.
CalculateCutSequenceOutcomes(pieces) ==
    LET cmp == [i \in 1..Len(pieces) |-> [j \in 1..Len(pieces) |->
                  CutBefore(pieces[i], pieces[j])]]
    IN  { [k \in 1..Len(sorted) |-> [sorted[k] EXCEPT !.cutSequence = k]] :
            sorted \in SortOutcomes(pieces, cmp) }

\* ------------------------------------------------- lib/stock-matcher.ts
\* The comparators of the sorts, over the positions of the sorted list.
AreaDescending(s) ==
    [i \in 1..Len(s) |-> [j \in 1..Len(s) |-> Area(s[j]) - Area(s[i]) < 0]]

CategoryAscending(s) ==
    [i \in 1..Len(s) |-> [j \in 1..Len(s) |->
        CategoryRank(s[i].category) < CategoryRank(s[j].category)]]

PerimeterDescending(s) ==
    [i \in 1..Len(s) |-> [j \in 1..Len(s) |-> Perimeter(s[j]) - Perimeter(s[i]) < 0]]

\* Object keys that are integers come in ascending order.
Ascending(s) == [i \in 1..Len(s) |-> [j \in 1..Len(s) |-> s[i] < s[j]]]

SortedByArea(s) == SortBy(s, AreaDescending(s))

\* The keys of piecesByThickness in for-in order: integer keys ascend.
ThicknessKeys(pieces) ==
    LET keys == Dedup([k \in 1..Len(pieces) |-> pieces[k].thickness])
    IN  SortBy(keys, Ascending(keys))

OfThickness(s, t) == SelectSeq(s, LAMBDA e : e.thickness = t)

\* Mutant: the availability filter left out.
EveryStock(stock) == stock

AvailableStock(stock) == SelectSeq(stock, LAMBDA e : e.available)

\* stockPieces.find((s) => s.id === id): the first sheet with the id.
FindStock(stock, id) ==
    LET hits == {k \in 1..Len(stock) : stock[k].id = id}
    IN  IF hits = {} THEN <<>> ELSE <<stock[CHOOSE k \in hits : \A o \in hits : k <= o]>>

UsedArea(layout) ==
    SumSeq([k \in 1..Len(layout.cuts) |-> layout.cuts[k].width * layout.cuts[k].height])

\* Mutant: the aggregate taken over every available sheet of the supply,
\* used or not.
TotalWasteOverSupply(lays, stock) ==
    LET used           == SumSeq([k \in 1..Len(lays) |-> UsedArea(lays[k])])
        avail          == AvailableStock(stock)
        totalStockArea == SumSeq([k \in 1..Len(avail) |-> Area(avail[k])])
    IN  IF totalStockArea > 0 THEN Pct(totalStockArea - used, totalStockArea) ELSE ZeroPct

\* Lines 106-128 (and 263-282): the aggregate waste over the layouts.
TotalWastePercentage(lays, stock) ==
    LET Waste(l) == LET f == FindStock(stock, l.stockPieceId)
                    IN  IF f = <<>> THEN 0 ELSE Area(f[1]) - UsedArea(l)
        Sheet(l) == LET f == FindStock(stock, l.stockPieceId)
                    IN  IF f = <<>> THEN 0 ELSE Area(f[1])
        totalWaste     == SumSeq([k \in 1..Len(lays) |-> Waste(lays[k])])
        totalStockArea == SumSeq([k \in 1..Len(lays) |-> Sheet(lays[k])])
    IN  IF totalStockArea > 0 THEN Pct(totalWaste, totalStockArea) ELSE ZeroPct

MatchingResult(lays, unmatched, waste) ==
    [layouts |-> lays, unmatchedPieces |-> unmatched,
     totalWastePercentage |-> waste, stockUsed |-> Len(lays)]

\* The layout of one sheet, lines 86-95.
CutLayout(stock, packing) ==
    [stockPieceId    |-> stock.id,
     cuts            |-> CalculateCutSequence(packing.packedPieces),
     wastePercentage |-> packing.wastePercentage]

\* Mutant: the used area taken from the first cut alone.
CalculateWasteStatsFirstCut(layout, stock) ==
    LET stockArea == stock.width * stock.height
        usedArea  == IF layout.cuts = <<>> THEN 0
                     ELSE layout.cuts[1].width * layout.cuts[1].height
        wasteArea == stockArea - usedArea
    IN  [stockArea       |-> stockArea,
         usedArea        |-> usedArea,
         wasteArea       |-> wasteArea,
         wastePercentage |-> Pct(wasteArea, stockArea),
         efficiency      |-> Pct(usedArea, stockArea)]

\* calculateWasteStats, lines 168-183.
CalculateWasteStats(layout, stock) ==
    LET stockArea == stock.width * stock.height
        usedArea  == SumSeq([k \in 1..Len(layout.cuts) |->
                               layout.cuts[k].width * layout.cuts[k].height])
        wasteArea == stockArea - usedArea
    IN  [stockArea       |-> stockArea,
         usedArea        |-> usedArea,
         wasteArea       |-> wasteArea,
         wastePercentage |-> Pct(wasteArea, stockArea),
         efficiency      |-> Pct(usedArea, stockArea)]

\* ------------------------------------------------- lib/optimizer.ts (pure)
\* estimateMaterialNeeded, lines 103-130.
RECURSIVE LargestPiece(_, _)
LargestPiece(cutPieces, largest) ==
    IF cutPieces = <<>> THEN largest
    ELSE LargestPiece(Tail(cutPieces),
                      IF Area(Head(cutPieces)) > Area(largest)
                      THEN [width |-> Head(cutPieces).width, height |-> Head(cutPieces).height]
                      ELSE largest)

EstimateMaterialNeeded(cutPieces) ==
    [totalArea    |-> SumSeq([k \in 1..Len(cutPieces) |->
                         cutPieces[k].width * cutPieces[k].height * cutPieces[k].quantity]),
     pieceCount   |-> SumSeq([k \in 1..Len(cutPieces) |-> cutPieces[k].quantity]),
     largestPiece |-> LargestPiece(cutPieces, [width |-> 0, height |-> 0])]

Max(a, b) == IF a >= b THEN a ELSE b

\* Mutant: the unavailable sheets counted as available area.
CheckStockSufficiencyEverySheet(cutPieces, stockPieces) ==
    LET requiredArea  == EstimateMaterialNeeded(cutPieces).totalArea
        availableArea == SumSeq([k \in 1..Len(stockPieces) |-> Area(stockPieces[k])])
        shortfall     == Max(0, requiredArea - availableArea)
    IN  [isSufficient  |-> shortfall = 0,
         availableArea |-> availableArea,
         requiredArea  |-> requiredArea,
         shortfall     |-> shortfall]

\* checkStockSufficiency, lines 139-162.
CheckStockSufficiency(cutPieces, stockPieces) ==
    LET requiredArea  == EstimateMaterialNeeded(cutPieces).totalArea
        avail         == AvailableStock(stockPieces)
        availableArea == SumSeq([k \in 1..Len(avail) |-> Area(avail[k])])
        shortfall     == Max(0, requiredArea - availableArea)
    IN  [isSufficient  |-> shortfall = 0,
         availableArea |-> availableArea,
         requiredArea  |-> requiredArea,
         shortfall     |-> shortfall]

\* ------------------------------------------------------------------ state
VARIABLES
    cutPieces,        \* optimizeCuts: the demand list
    stockPieces,      \* optimizeCuts: the supply list
    mode,             \* options.mode
    allowRotation,    \* options.allowRotation
    pc,               \* where the run stands
    mPieces,          \* matchPiecesToStock: its cutPieces argument
    mRotation,        \* matchPiecesToStock: its allowRotation argument
    groups,           \* thickness keys the for-in loop has still to visit
    remainingPieces,  \* pieces still to place in the current group
    sortedStock,      \* sheets the for-of loop has still to visit
    layouts,          \* layouts pushed so far
    allUnmatched,     \* unmatched pieces pushed so far
    result,           \* the MatchingResult returned (when pc = "done")
    packed,           \* what packer.pack has answered so far, per (boxes, bin)
    phase,            \* "run": optimizeCuts; "reference": the orchestrator called directly;
                      \* "repeat", "fallback": optimizeCuts called a second time
    first,            \* the result of optimizeCuts, kept for the comparison
    packing,          \* the matcher's local "result": what packPiecesIntoStock returned last
    consoleErrors,    \* number of console.error calls so far
    estimate,         \* what estimateMaterialNeeded returned
    sufficiency,      \* what checkStockSufficiency returned
    placedPieces,     \* calculateCutSequence: its argument "pieces"
    sequenced,        \* calculateCutSequence: what it returned
    stats,            \* what calculateWasteStats returned
    store,            \* useStockStore: the state of the store
    timers,           \* the setTimeout callbacks not yet fired, oldest first
    callback,         \* the callback that is executing
    runs,             \* calls of runOptimization so far
    edits             \* calls of the other store actions so far

vars == <<cutPieces, stockPieces, mode, allowRotation, pc, mPieces, mRotation,
          groups, remainingPieces, sortedStock, layouts, allUnmatched, result,
          packed, phase, first, packing, consoleErrors, estimate, sufficiency,
          placedPieces, sequenced, stats, store, timers, callback, runs, edits>>

\* The state of the application around the engine.
app == <<store, timers, callback, runs, edits>>

\* The state of the auxiliary entry points.
calls == <<estimate, sufficiency, placedPieces, sequenced, stats, app>>

args == <<cutPieces, stockPieces, mode, allowRotation, phase, first>>

\* Mutant: packer.pack free to answer differently each time it is called.
PackerAnswersAnew(boxes, W, H) == PackerPack(boxes, W, H)

\* packer.pack computes without randomness: the same boxes into the same bin
\* are packed the same way each time.
PackerAnswers(boxes, W, H) ==
    LET known == {m \in packed : m.boxes = boxes /\ m.width = W /\ m.height = H}
    IN  IF known # {} THEN {m.run : m \in known} ELSE PackerPack(boxes, W, H)

NoResult == MatchingResult(<<>>, <<>>, ZeroPct)

NoPacking ==
    [packedPieces |-> <<>>, unpackedPieces |-> <<>>, wastePercentage |-> ZeroPct,
     totalArea |-> 0, usedArea |-> 0]

NoEstimate == [totalArea |-> 0, pieceCount |-> 0, largestPiece |-> [width |-> 0, height |-> 0]]

NoSufficiency == [isSufficient |-> TRUE, availableArea |-> 0, requiredArea |-> 0, shortfall |-> 0]

\* The details panel has not been rendered: no statistics computed.
NoStats == <<>>

\* The store as create() builds it, lines 100-108.  optimizationResults is a
\* sequence holding the list of layouts, and the empty sequence when null.
InitialStore ==
    [stockPieces          |-> <<>>,
     optimizationResults  |-> <<>>,
     unmatchedPieces      |-> <<>>,
     optimizationMode     |-> "minimize-waste",
     totalWastePercentage |-> ZeroPct,
     isOptimizing         |-> FALSE]

NoCallback == [cutPieces |-> <<>>, stockAtCall |-> <<>>, modeAtCall |-> "", n |-> 0]

\* No store action has been called and no callback is pending.
AppIdle ==
    /\ stats = NoStats
    /\ store = InitialStore
    /\ timers = <<>>
    /\ callback = NoCallback
    /\ runs = 0
    /\ edits = 0

Init ==
    /\ AppIdle
    /\ cutPieces \in DistinctSeqs(PieceCatalog, MaxPieces)
    /\ stockPieces \in DistinctSeqs(StockCatalog, MaxSheets)
    /\ mode \in Modes \cup OtherModes
    /\ allowRotation \in BOOLEAN
    /\ pc = "call"
    /\ packing = NoPacking
    /\ consoleErrors = 0
    /\ estimate = NoEstimate
    /\ sufficiency = NoSufficiency
    /\ placedPieces = <<>>
    /\ sequenced = <<>>
    /\ mPieces = <<>>
    /\ mRotation = TRUE
    /\ groups = <<>>
    /\ remainingPieces = <<>>
    /\ sortedStock = <<>>
    /\ layouts = <<>>
    /\ allUnmatched = <<>>
    /\ result = NoResult
    /\ packed = {}
    /\ phase = "run"
    /\ first = NoResult

Return(r) ==
    /\ pc' = "done"
    /\ result' = r

\* ------------------------------------------------- lib/optimizer.ts
\* Mutant: without pieces the whole supply is reported as wasted.
OptimizeCutsNoPiecesAllWaste ==
    /\ pc = "call"
    /\ Len(cutPieces) = 0
    /\ Return(MatchingResult(<<>>, <<>>, Pct(1, 1)))
    /\ UNCHANGED <<args, calls, consoleErrors, mPieces, mRotation, groups, remainingPieces, sortedStock,
                   layouts, allUnmatched, packed, packing>>

\* optimizeCuts, lines 44-51: nothing to cut.
OptimizeCutsNoPieces ==
    /\ pc = "call"
    /\ Len(cutPieces) = 0
    /\ Return(MatchingResult(<<>>, <<>>, ZeroPct))
    /\ UNCHANGED <<args, calls, consoleErrors, mPieces, mRotation, groups, remainingPieces, sortedStock,
                   layouts, allUnmatched, packed, packing>>

\* optimizeCuts, lines 53-60: no stock at all.
OptimizeCutsNoStock ==
    /\ pc = "call"
    /\ Len(cutPieces) # 0
    /\ Len(stockPieces) = 0
    /\ Return(MatchingResult(<<>>, cutPieces, ZeroPct))
    /\ UNCHANGED <<args, calls, consoleErrors, mPieces, mRotation, groups, remainingPieces, sortedStock,
                   layouts, allUnmatched, packed, packing>>

Dispatched(m) ==
    /\ pc = "call"
    /\ Len(cutPieces) # 0
    /\ Len(stockPieces) # 0
    /\ mode = m

\* matchPiecesToStock(pieces, stockPieces, rotation), lines 30-59: the early
\* return, or fresh locals and the head of the loop over the thicknesses.
EnterMatchPiecesToStock(pieces, rotation) ==
    /\ mPieces' = pieces
    /\ mRotation' = rotation
    /\ layouts' = <<>>
    /\ allUnmatched' = <<>>
    /\ remainingPieces' = <<>>
    /\ sortedStock' = <<>>
    /\ IF Len(stockPieces) = 0
       THEN /\ Return(MatchingResult(<<>>, pieces, ZeroPct))
            /\ groups' = <<>>
       ELSE /\ pc' = "thickness"
            /\ groups' = ThicknessKeys(pieces)
            /\ UNCHANGED result
    /\ UNCHANGED <<packed, packing>>

\* case "minimize-waste"
MinimizeWaste ==
    /\ Dispatched("minimize-waste")
    /\ EnterMatchPiecesToStock(cutPieces, allowRotation)
    /\ UNCHANGED <<args, calls, consoleErrors>>

\* Mutant: the default branch dispatching to the simplify-cuts wrapper.
OptimizeCutsDefaultSimpleCuts ==
    /\ pc = "call"
    /\ Len(cutPieces) # 0
    /\ Len(stockPieces) # 0
    /\ mode \notin Modes
    /\ EnterMatchPiecesToStock(SortBy(cutPieces, AreaDescending(cutPieces)), FALSE)
    /\ UNCHANGED <<args, calls, consoleErrors>>

\* optimizeCuts, lines 86-92: the default branch of the switch.
OptimizeCutsDefault ==
    /\ pc = "call"
    /\ Len(cutPieces) # 0
    /\ Len(stockPieces) # 0
    /\ mode \notin Modes
    /\ EnterMatchPiecesToStock(cutPieces, allowRotation)
    /\ UNCHANGED <<args, calls, consoleErrors>>

\* matchPiecesSimpleCuts
MatchPiecesSimpleCuts ==
    /\ Dispatched("simplify-cuts")
    /\ EnterMatchPiecesToStock(SortBy(cutPieces, AreaDescending(cutPieces)), FALSE)
    /\ UNCHANGED <<args, calls, consoleErrors>>

\* matchPiecesGrainDirection
MatchPiecesGrainDirection ==
    /\ Dispatched("grain-direction")
    /\ EnterMatchPiecesToStock(SortBy(cutPieces, CategoryAscending(cutPieces)), FALSE)
    /\ UNCHANGED <<args, calls, consoleErrors>>

\* Mutant: the wrapper sorting only when the caller allows rotation.
MatchPiecesLargestFirstIfRotation ==
    /\ Dispatched("largest-first")
    /\ EnterMatchPiecesToStock(IF allowRotation
                               THEN SortBy(cutPieces, AreaDescending(cutPieces))
                               ELSE cutPieces, TRUE)
    /\ UNCHANGED <<args, calls, consoleErrors>>

\* matchPiecesLargestFirst
MatchPiecesLargestFirst ==
    /\ Dispatched("largest-first")
    /\ EnterMatchPiecesToStock(SortBy(cutPieces, AreaDescending(cutPieces)), TRUE)
    /\ UNCHANGED <<args, calls, consoleErrors>>

\* matchPiecesEdgeAlignment
MatchPiecesEdgeAlignment ==
    /\ Dispatched("edge-alignment")
    /\ EnterMatchPiecesToStock(SortBy(cutPieces, PerimeterDescending(cutPieces)), FALSE)
    /\ UNCHANGED <<args, calls, consoleErrors>>

\* Mutant: a thickness without stock is skipped and its pieces are not
\* reported as unmatched.
ThicknessWithoutStockSkipped ==
    /\ pc = "thickness"
    /\ groups # <<>>
    /\ OfThickness(AvailableStock(stockPieces), Head(groups)) = <<>>
    /\ groups' = Tail(groups)
    /\ UNCHANGED <<args, calls, consoleErrors, pc, mPieces, mRotation, remainingPieces, sortedStock, layouts, result,
                   packed, packing, allUnmatched>>

\* matchPiecesToStock, lines 62-70: a thickness no available sheet has.
ThicknessWithoutStock ==
    /\ pc = "thickness"
    /\ groups # <<>>
    /\ OfThickness(AvailableStock(stockPieces), Head(groups)) = <<>>
    /\ allUnmatched' = allUnmatched \o OfThickness(mPieces, Head(groups))
    /\ groups' = Tail(groups)
    /\ UNCHANGED <<args, calls, consoleErrors, pc, mPieces, mRotation, remainingPieces, sortedStock, layouts, result,
                   packed, packing>>

\* matchPiecesToStock, lines 62-77: a thickness with sheets; sort them.
ThicknessBegin ==
    /\ pc = "thickness"
    /\ groups # <<>>
    /\ OfThickness(AvailableStock(stockPieces), Head(groups)) # <<>>
    /\ remainingPieces' = OfThickness(mPieces, Head(groups))
    /\ sortedStock' = SortedByArea(OfThickness(AvailableStock(stockPieces), Head(groups)))
    /\ pc' = "sheet"
    /\ UNCHANGED <<args, calls, consoleErrors, mPieces, mRotation, groups, layouts, allUnmatched, result, packed, packing>>

\* Mutant: a layout is pushed for every sheet tried, also when nothing was
\* packed into it.
PackNextSheetAlways(rotation) ==
    /\ sortedStock # <<>>
    /\ Len(remainingPieces) # 0
    /\ LET stock == Head(sortedStock)
           boxes == Boxes(remainingPieces)
       IN  \E run \in PackerAnswers(boxes, stock.width, stock.height) :
              LET returned == PackingResult(remainingPieces, stock, rotation, run)
              IN  /\ packed' = packed \cup
                        {[boxes |-> boxes, width |-> stock.width, height |-> stock.height,
                          run |-> run]}
                  /\ packing' = returned
                  /\ layouts' = Append(layouts, CutLayout(stock, returned))
                  /\ remainingPieces' = returned.unpackedPieces
    /\ sortedStock' = Tail(sortedStock)

\* One iteration of "for (const stock of sortedStock)", lines 80-100 and
\* 244-261: pack what remains into the next sheet.
PackNextSheet(rotation) ==
    /\ sortedStock # <<>>
    /\ Len(remainingPieces) # 0
    /\ LET stock == Head(sortedStock)
           boxes == Boxes(remainingPieces)
       IN  \E run \in PackerAnswers(boxes, stock.width, stock.height) :
              LET returned == PackingResult(remainingPieces, stock, rotation, run)
              IN  /\ packed' = packed \cup
                        {[boxes |-> boxes, width |-> stock.width, height |-> stock.height,
                          run |-> run]}
                  /\ packing' = returned
                  /\ IF Len(returned.packedPieces) > 0
                     THEN /\ layouts' = Append(layouts, CutLayout(stock, returned))
                          /\ remainingPieces' = returned.unpackedPieces
                     ELSE UNCHANGED <<layouts, remainingPieces>>
    /\ sortedStock' = Tail(sortedStock)

LoopOver == sortedStock = <<>> \/ Len(remainingPieces) = 0

\* matchPiecesToStock, lines 80-100.
SheetPack ==
    /\ pc = "sheet"
    /\ PackNextSheet(mRotation)
    /\ UNCHANGED <<args, calls, consoleErrors, pc, mPieces, mRotation, groups, allUnmatched, result>>

\* matchPiecesToStock, line 103: the group's sheets are done.
ThicknessEnd ==
    /\ pc = "sheet"
    /\ LoopOver
    /\ allUnmatched' = allUnmatched \o remainingPieces
    /\ groups' = Tail(groups)
    /\ pc' = "thickness"
    /\ UNCHANGED <<args, calls, consoleErrors, mPieces, mRotation, remainingPieces, sortedStock, layouts, result,
                   packed, packing>>

\* matchPiecesToStock, lines 106-135.
MatchPiecesToStockReturn ==
    /\ pc = "thickness"
    /\ groups = <<>>
    /\ Return(MatchingResult(layouts, allUnmatched, TotalWastePercentage(layouts, stockPieces)))
    /\ UNCHANGED <<args, calls, consoleErrors, mPieces, mRotation, groups, remainingPieces, sortedStock,
                   layouts, allUnmatched, packed, packing>>

\* Mutant: remainingPieces is the caller's array itself, which the sort then
\* reorders.
MatchPiecesMinimizeSheetsInPlace ==
    /\ Dispatched("minimize-sheets")
    /\ cutPieces' = SortBy(cutPieces, AreaDescending(cutPieces))
    /\ pc' = "sheets"
    /\ remainingPieces' = SortBy(cutPieces, AreaDescending(cutPieces))
    /\ sortedStock' = SortedByArea(AvailableStock(stockPieces))
    /\ UNCHANGED <<stockPieces, mode, allowRotation, phase, first, calls, consoleErrors,
                   mPieces, mRotation, groups, layouts, allUnmatched, packed, packing, result>>

\* matchPiecesMinimizeSheets, lines 218-241.
MatchPiecesMinimizeSheets ==
    /\ Dispatched("minimize-sheets")
    /\ IF Len(stockPieces) = 0
       THEN /\ Return(MatchingResult(<<>>, cutPieces, ZeroPct))
            /\ UNCHANGED <<remainingPieces, sortedStock>>
       ELSE /\ pc' = "sheets"
            /\ remainingPieces' = SortBy(cutPieces, AreaDescending(cutPieces))
            /\ sortedStock' = SortedByArea(AvailableStock(stockPieces))
            /\ UNCHANGED result
    /\ UNCHANGED <<args, calls, consoleErrors, mPieces, mRotation, groups, layouts, allUnmatched, packed, packing>>

\* matchPiecesMinimizeSheets, lines 244-261.
MinimizeSheetsPack ==
    /\ pc = "sheets"
    /\ PackNextSheet(TRUE)
    /\ UNCHANGED <<args, calls, consoleErrors, pc, mPieces, mRotation, groups, allUnmatched, result>>

\* matchPiecesMinimizeSheets, lines 263-289.
MinimizeSheetsReturn ==
    /\ pc = "sheets"
    /\ LoopOver
    /\ Return(MatchingResult(layouts, remainingPieces, TotalWastePercentage(layouts, stockPieces)))
    /\ UNCHANGED <<args, calls, consoleErrors, mPieces, mRotation, groups, remainingPieces, sortedStock,
                   layouts, allUnmatched, packed, packing>>

Next ==
    \/ OptimizeCutsNoPieces
    \/ OptimizeCutsNoStock
    \/ MinimizeWaste
    \/ OptimizeCutsDefault
    \/ MatchPiecesSimpleCuts
    \/ MatchPiecesGrainDirection
    \/ MatchPiecesMinimizeSheets
    \/ MatchPiecesLargestFirst
    \/ MatchPiecesEdgeAlignment
    \/ ThicknessWithoutStock
    \/ ThicknessBegin
    \/ SheetPack
    \/ ThicknessEnd
    \/ MatchPiecesToStockReturn
    \/ MinimizeSheetsPack
    \/ MinimizeSheetsReturn

Spec == Init /\ [][Next]_vars

\* ------------------------------------------------- the packer throws
\* One iteration of the loop over the sheets in which something inside the
\* try block of packPiecesIntoStock throws: the catch block logs the error
\* and returns, and the loop body goes on with what it returned.
PackNextSheetThrows ==
    /\ sortedStock # <<>>
    /\ Len(remainingPieces) # 0
    /\ LET stock    == Head(sortedStock)
           returned == PackingFailed(remainingPieces, stock)
       IN  /\ packing' = returned
           /\ IF Len(returned.packedPieces) > 0
              THEN /\ layouts' = Append(layouts, CutLayout(stock, returned))
                   /\ remainingPieces' = returned.unpackedPieces
              ELSE UNCHANGED <<layouts, remainingPieces>>
    /\ consoleErrors' = consoleErrors + 1
    /\ sortedStock' = Tail(sortedStock)
    /\ UNCHANGED packed

\* matchPiecesToStock, lines 80-100, with a throwing packer.
SheetPackThrows ==
    /\ pc = "sheet"
    /\ PackNextSheetThrows
    /\ UNCHANGED <<args, calls, pc, mPieces, mRotation, groups, allUnmatched, result>>

\* matchPiecesMinimizeSheets, lines 244-261, with a throwing packer.
MinimizeSheetsPackThrows ==
    /\ pc = "sheets"
    /\ PackNextSheetThrows
    /\ UNCHANGED <<args, calls, pc, mPieces, mRotation, groups, allUnmatched, result>>

NextFault == Next \/ SheetPackThrows \/ MinimizeSheetsPackThrows

SpecFault == Init /\ [][NextFault]_vars

\* ------------------------------------------------- a second call
\* The locals of a fresh activation of optimizeCuts.
FreshCall ==
    /\ pc' = "call"
    /\ first' = result
    /\ result' = NoResult
    /\ packing' = NoPacking
    /\ mPieces' = <<>>
    /\ mRotation' = TRUE
    /\ groups' = <<>>
    /\ remainingPieces' = <<>>
    /\ sortedStock' = <<>>
    /\ layouts' = <<>>
    /\ allUnmatched' = <<>>
    /\ UNCHANGED <<cutPieces, stockPieces, allowRotation, packed, calls, consoleErrors>>

\* After optimizeCuts has returned, the caller calls it again with the same
\* arguments.
CallAgain ==
    /\ pc = "done"
    /\ phase = "run"
    /\ phase' = "repeat"
    /\ FreshCall
    /\ UNCHANGED mode

\* After optimizeCuts has returned for a mode that is none of the six, the
\* caller calls it again with mode "minimize-waste".
CallMinimizeWaste ==
    /\ pc = "done"
    /\ phase = "run"
    /\ mode \notin Modes
    /\ phase' = "fallback"
    /\ mode' = "minimize-waste"
    /\ FreshCall

NextRepeat == Next \/ CallAgain

SpecRepeat == Init /\ [][NextRepeat]_vars

NextFallback == Next \/ CallMinimizeWaste

SpecFallback == Init /\ [][NextFallback]_vars

\* ------------------------------------------------- auxiliary entry points
\* estimateMaterialNeeded(cutPieces)
EstimateMaterialNeededCall ==
    /\ pc = "call"
    /\ estimate' = EstimateMaterialNeeded(cutPieces)
    /\ pc' = "estimated"
    /\ UNCHANGED <<args, consoleErrors, mPieces, mRotation, groups, remainingPieces, sortedStock,
                   layouts, allUnmatched, result, packed, packing, sufficiency, placedPieces, sequenced, stats, app>>

\* checkStockSufficiency(cutPieces, stockPieces)
CheckStockSufficiencyCall ==
    /\ pc = "call"
    /\ sufficiency' = CheckStockSufficiency(cutPieces, stockPieces)
    /\ pc' = "checked"
    /\ UNCHANGED <<args, consoleErrors, mPieces, mRotation, groups, remainingPieces, sortedStock,
                   layouts, allUnmatched, result, packed, packing, estimate, placedPieces, sequenced, stats, app>>

NextEntryPoints == Next \/ EstimateMaterialNeededCall \/ CheckStockSufficiencyCall

SpecEntryPoints == Init /\ [][NextEntryPoints]_vars

\* The details panel over a result: for each layout the sheet is looked up by
\* id in the supply and calculateWasteStats(layout, stock) is called; a layout
\* whose sheet is not found is skipped.
CalculateWasteStatsCall ==
    /\ pc = "done"
    /\ phase = "run"
    /\ result.layouts # <<>>
    /\ stats' = [k \in 1..Len(result.layouts) |->
                   LET stock == FindStock(stockPieces, result.layouts[k].stockPieceId)
                   IN  IF stock = <<>> THEN <<>>
                       ELSE <<CalculateWasteStats(result.layouts[k], stock[1])>>]
    /\ pc' = "stats"
    /\ UNCHANGED <<args, consoleErrors, mPieces, mRotation, groups, remainingPieces, sortedStock,
                   layouts, allUnmatched, result, packed, packing, estimate, sufficiency,
                   placedPieces, sequenced, app>>

NextStats == Next \/ CalculateWasteStatsCall

SpecStats == Init /\ [][NextStats]_vars

\* After optimizeCuts has returned in one of the five modes that do not pass
\* options.allowRotation on, the caller calls it again with the same demand,
\* supply and mode and the other value of allowRotation.
CallWithOtherRotation ==
    /\ pc = "done"
    /\ phase = "run"
    /\ mode \in Modes \ {"minimize-waste"}
    /\ phase' = "flipped"
    /\ allowRotation' = ~allowRotation
    /\ pc' = "call"
    /\ first' = result
    /\ result' = NoResult
    /\ packing' = NoPacking
    /\ mPieces' = <<>>
    /\ mRotation' = TRUE
    /\ groups' = <<>>
    /\ remainingPieces' = <<>>
    /\ sortedStock' = <<>>
    /\ layouts' = <<>>
    /\ allUnmatched' = <<>>
    /\ UNCHANGED <<cutPieces, stockPieces, mode, packed, calls, consoleErrors>>

NextFlip == Next \/ CallWithOtherRotation

SpecFlip == Init /\ [][NextFlip]_vars

\* calculateCutSequence called on its own: the argument is any list of at
\* most MaxPlaced placements at distinct origins, numbered as the packer
\* numbers them.
PlacementLists ==
    { [k \in 1..Len(o) |->
         [cutPieceId  |-> BoxId(Piece(<<"p">>, 10, 6, MaxPlaced, "shelf", 18), k - 1),
          x           |-> o[k][1],
          y           |-> o[k][2],
          width       |-> 10,
          height      |-> 6,
          rotated     |-> FALSE,
          cutSequence |-> k]] : o \in DistinctSeqs(PlacementOrigins, MaxPlaced) }

InitCutSequence ==
    /\ AppIdle
    /\ cutPieces = <<>>
    /\ stockPieces = <<>>
    /\ mode = "minimize-waste"
    /\ allowRotation = TRUE
    /\ pc = "sequence"
    /\ packing = NoPacking
    /\ consoleErrors = 0
    /\ estimate = NoEstimate
    /\ sufficiency = NoSufficiency
    /\ placedPieces \in PlacementLists
    /\ sequenced = <<>>
    /\ mPieces = <<>>
    /\ mRotation = TRUE
    /\ groups = <<>>
    /\ remainingPieces = <<>>
    /\ sortedStock = <<>>
    /\ layouts = <<>>
    /\ allUnmatched = <<>>
    /\ result = NoResult
    /\ packed = {}
    /\ phase = "run"
    /\ first = NoResult

\* calculateCutSequence(placedPieces)
CalculateCutSequenceCall ==
    /\ pc = "sequence"
    /\ sequenced' \in CalculateCutSequenceOutcomes(placedPieces)
    /\ pc' = "sequenced"
    /\ UNCHANGED <<args, consoleErrors, mPieces, mRotation, groups, remainingPieces, sortedStock,
                   layouts, allUnmatched, result, packed, packing, estimate, sufficiency, placedPieces, stats, app>>

NextCutSequence == CalculateCutSequenceCall

SpecCutSequence == InitCutSequence /\ [][NextCutSequence]_vars

\* ------------------------------------------------- degenerate input
\* optimizeCuts called with lists that may hold a degenerate piece or sheet.
InitDegenerate ==
    /\ AppIdle
    /\ cutPieces \in DistinctSeqs(PieceCatalog \cup DegeneratePieces, MaxPieces)
    /\ stockPieces \in DistinctSeqs(StockCatalog \cup DegenerateStock, MaxSheets)
    /\ mode \in Modes \cup OtherModes
    /\ allowRotation \in BOOLEAN
    /\ pc = "call"
    /\ packing = NoPacking
    /\ consoleErrors = 0
    /\ estimate = NoEstimate
    /\ sufficiency = NoSufficiency
    /\ placedPieces = <<>>
    /\ sequenced = <<>>
    /\ mPieces = <<>>
    /\ mRotation = TRUE
    /\ groups = <<>>
    /\ remainingPieces = <<>>
    /\ sortedStock = <<>>
    /\ layouts = <<>>
    /\ allUnmatched = <<>>
    /\ result = NoResult
    /\ packed = {}
    /\ phase = "run"
    /\ first = NoResult

SpecDegenerate == InitDegenerate /\ [][Next]_vars

\* ------------------------------------------------- store/stock-store.ts
\* The variables of the engine, and those of the auxiliary entry points.
engine == <<cutPieces, stockPieces, mode, allowRotation, pc, mPieces, mRotation,
            groups, remainingPieces, sortedStock, layouts, allUnmatched, result,
            packed, phase, first, packing, consoleErrors>>

tools == <<estimate, sufficiency, placedPieces, sequenced, stats>>

\* The store after create(), no action called yet; the engine is not running.
InitStore ==
    /\ AppIdle
    /\ cutPieces = <<>>
    /\ stockPieces = <<>>
    /\ mode = "minimize-waste"
    /\ allowRotation = TRUE
    /\ pc = "idle"
    /\ packing = NoPacking
    /\ consoleErrors = 0
    /\ estimate = NoEstimate
    /\ sufficiency = NoSufficiency
    /\ placedPieces = <<>>
    /\ sequenced = <<>>
    /\ mPieces = <<>>
    /\ mRotation = TRUE
    /\ groups = <<>>
    /\ remainingPieces = <<>>
    /\ sortedStock = <<>>
    /\ layouts = <<>>
    /\ allUnmatched = <<>>
    /\ result = NoResult
    /\ packed = {}
    /\ phase = "store"
    /\ first = NoResult

\* A store action runs to its end before anything else runs: it can start
\* only while no callback is executing.
StoreAction ==
    /\ phase = "store"
    /\ pc = "idle"

\* A store action that edits the stock list.
StockEdit(stock) ==
    /\ StoreAction
    /\ edits < MaxEdits
    /\ edits' = edits + 1
    /\ store' = [store EXCEPT !.stockPieces = stock]
    /\ UNCHANGED <<engine, tools, timers, callback, runs>>

\* generateId(): an id no earlier sheet has.
GenerateId == "stock_" \o ToString(edits + 1)

\* addStock(width, height): the new sheet has an id, the two sizes and
\* available: true, and no thickness.
AddStock ==
    \E size \in StoreSizes :
        StockEdit(Append(store.stockPieces,
                         Stock(GenerateId, size[1], size[2], Undefined, TRUE)))

\* removeStock(id)
RemoveStock ==
    \E k \in 1..Len(store.stockPieces) :
        StockEdit(SelectSeq(store.stockPieces,
                            LAMBDA piece : piece.id # store.stockPieces[k].id))

\* updateStock(id, width, height)
UpdateStock ==
    \E k \in 1..Len(store.stockPieces), size \in StoreSizes :
        /\ <<store.stockPieces[k].width, store.stockPieces[k].height>> # size
        /\ StockEdit([j \in 1..Len(store.stockPieces) |->
                        IF store.stockPieces[j].id = store.stockPieces[k].id
                        THEN [store.stockPieces[j] EXCEPT !.width = size[1], !.height = size[2]]
                        ELSE store.stockPieces[j]])

\* clearStock()
ClearStock ==
    /\ store.stockPieces # <<>>
    /\ StockEdit(<<>>)

\* toggleAvailability(id)
ToggleAvailability ==
    \E k \in 1..Len(store.stockPieces) :
        StockEdit([j \in 1..Len(store.stockPieces) |->
                     IF store.stockPieces[j].id = store.stockPieces[k].id
                     THEN [store.stockPieces[j] EXCEPT !.available = ~@]
                     ELSE store.stockPieces[j]])

\* runOptimization(cutPieces): set({ isOptimizing: true }) and setTimeout of
\* the callback.  The timer keeps the cut list; the stock list and the mode of
\* this moment are recorded beside it for the properties, the callback does
\* not have them.
RunOptimization ==
    \E list \in StoreCutLists :
        /\ StoreAction
        /\ runs < MaxRuns
        /\ runs' = runs + 1
        /\ store' = [store EXCEPT !.isOptimizing = TRUE]
        /\ timers' = Append(timers, [cutPieces   |-> list,
                                     stockAtCall |-> store.stockPieces,
                                     modeAtCall  |-> store.optimizationMode,
                                     n           |-> runs + 1])
        /\ UNCHANGED <<engine, tools, callback, edits>>

\* setOptimizationMode(mode)
SetOptimizationMode ==
    \E m \in StoreModes :
        /\ StoreAction
        /\ m # store.optimizationMode
        /\ store' = [store EXCEPT !.optimizationMode = m]
        /\ UNCHANGED <<engine, tools, timers, callback, runs, edits>>

\* clearOptimization()
ClearOptimization ==
    /\ StoreAction
    /\ store' = [store EXCEPT !.optimizationResults = <<>>,
                              !.unmatchedPieces = <<>>,
                              !.totalWastePercentage = ZeroPct]
    /\ store' # store
    /\ UNCHANGED <<engine, tools, timers, callback, runs, edits>>

\* The oldest timer fires (all have the same delay): the callback enters
\* set((state) => ...) and calls optimizeCuts(cutPieces, state.stockPieces,
\* { mode: state.optimizationMode, allowRotation: true }).
CallbackBegin ==
    /\ StoreAction
    /\ timers # <<>>
    /\ callback' = Head(timers)
    /\ timers' = Tail(timers)
    /\ cutPieces' = Head(timers).cutPieces
    /\ stockPieces' = store.stockPieces
    /\ mode' = store.optimizationMode
    /\ allowRotation' = TRUE
    /\ pc' = "call"
    /\ UNCHANGED <<mPieces, mRotation, groups, remainingPieces, sortedStock, layouts,
                   allUnmatched, result, packed, phase, first, packing, consoleErrors,
                   tools, store, runs, edits>>

\* The callback is over: the activation of optimizeCuts is gone.
CallbackEnd ==
    /\ pc' = "idle"
    /\ cutPieces' = <<>>
    /\ stockPieces' = <<>>
    /\ mode' = "minimize-waste"
    /\ result' = NoResult
    /\ packing' = NoPacking
    /\ mPieces' = <<>>
    /\ mRotation' = TRUE
    /\ groups' = <<>>
    /\ remainingPieces' = <<>>
    /\ sortedStock' = <<>>
    /\ layouts' = <<>>
    /\ allUnmatched' = <<>>
    /\ UNCHANGED <<allowRotation, packed, phase, first, tools, timers, callback, runs, edits>>

\* Lines 166-171: optimizeCuts has returned, its result goes into the store.
CallbackReturn ==
    /\ phase = "store"
    /\ pc = "done"
    /\ store' = [store EXCEPT !.optimizationResults = <<result.layouts>>,
                              !.unmatchedPieces = result.unmatchedPieces,
                              !.totalWastePercentage = result.totalWastePercentage,
                              !.isOptimizing = FALSE]
    /\ CallbackEnd
    /\ UNCHANGED consoleErrors

\* Mutant: the catch block leaving the loading flag as it is.
CallbackThrowsStuck ==
    /\ phase = "store"
    /\ pc = "call"
    /\ consoleErrors' = consoleErrors + 1
    /\ store' = [store EXCEPT !.optimizationResults = <<>>,
                              !.unmatchedPieces = callback.cutPieces,
                              !.totalWastePercentage = ZeroPct]
    /\ CallbackEnd

\* Lines 173-181: optimizeCuts throws, set() changes nothing, and the catch
\* block logs the error and stores its values.
CallbackThrows ==
    /\ phase = "store"
    /\ pc = "call"
    /\ consoleErrors' = consoleErrors + 1
    /\ store' = [store EXCEPT !.isOptimizing = FALSE,
                              !.optimizationResults = <<>>,
                              !.unmatchedPieces = callback.cutPieces,
                              !.totalWastePercentage = ZeroPct]
    /\ CallbackEnd

\* The steps of optimizeCuts inside a callback.  A sheet built by addStock has
\* no thickness, so matchPiecesToStock finds no sheet for any thickness that
\* a piece has, and the mode is one of StoreModes.
OptimizeCutsInCallback ==
    \/ OptimizeCutsNoPieces
    \/ OptimizeCutsNoStock
    \/ MinimizeWaste
    \/ MatchPiecesMinimizeSheets
    \/ ThicknessWithoutStock
    \/ MatchPiecesToStockReturn
    \/ MinimizeSheetsPack
    \/ MinimizeSheetsReturn

\* What the timer does once it is due.
CallbackStep == CallbackBegin \/ OptimizeCutsInCallback \/ CallbackReturn

NextStore ==
    \/ AddStock
    \/ RemoveStock
    \/ UpdateStock
    \/ ClearStock
    \/ ToggleAvailability
    \/ RunOptimization
    \/ SetOptimizationMode
    \/ ClearOptimization
    \/ CallbackStep
    \/ CallbackThrows

SpecStore == InitStore /\ [][NextStore]_vars

\* ------------------------------------------------- policy table (spec 4.3)
\* The demand order and the rotation flag the policy table gives each mode.
PolicyDemand(m, pieces) ==
    CASE m = "minimize-waste"  -> pieces
      [] m = "simplify-cuts"   -> SortBy(pieces, AreaDescending(pieces))
      [] m = "grain-direction" -> SortBy(pieces, CategoryAscending(pieces))
      [] m = "minimize-sheets" -> SortBy(pieces, AreaDescending(pieces))
      [] m = "largest-first"   -> SortBy(pieces, AreaDescending(pieces))
      [] m = "edge-alignment"  -> SortBy(pieces, PerimeterDescending(pieces))

PolicyRotation(m) == m \in {"minimize-waste", "minimize-sheets", "largest-first"}

\* After optimizeCuts has returned, the same caller calls matchPiecesToStock
\* itself with the demand in the table's order and the table's rotation flag.
CallOrchestrator ==
    /\ pc = "done"
    /\ phase = "run"
    /\ first' = result
    /\ phase' = "reference"
    /\ mode \in Modes
    /\ EnterMatchPiecesToStock(PolicyDemand(mode, cutPieces), PolicyRotation(mode))
    /\ UNCHANGED <<cutPieces, stockPieces, mode, allowRotation, calls, consoleErrors>>

NextReference == Next \/ CallOrchestrator

SpecReference == Init /\ [][NextReference]_vars

\* ================================================================ claims
Done == pc = "done" /\ phase = "run"

\* Every placement of the result, with the sheet id of its layout.
Placements(r) ==
    UNION { { [sheet |-> r.layouts[l].stockPieceId, at |-> <<l, k>>, cut |-> r.layouts[l].cuts[k]] :
                k \in 1..Len(r.layouts[l].cuts) } : l \in 1..Len(r.layouts) }

\* The placements whose owning piece is p, and p's unmatched quantity.
PlacedCount(r, p) == Cardinality({q \in Placements(r) : q.cut.cutPieceId.id = p.id})

UnmatchedCount(r, p) ==
    SumSeq([k \in 1..Len(r.unmatchedPieces) |->
              IF r.unmatchedPieces[k].id = p.id THEN r.unmatchedPieces[k].quantity ELSE 0])

Demand == Range(cutPieces)
Supply == Range(stockPieces)

PieceOf(q) == CHOOSE p \in Demand : p.id = q.cut.cutPieceId.id
SheetOf(q) == CHOOSE st \in Supply : st.id = q.sheet

RotationDisallowed ==
    \/ mode \in {"simplify-cuts", "grain-direction", "edge-alignment"}
    \/ (mode = "minimize-waste" /\ ~allowRotation)

\* C1 (Conservation): in the result of optimizeCuts, for every demand piece
\* the placements it owns plus its unmatched quantity equal its quantity,
\* whatever the piece ids look like.
C1_Conservation ==
    Done => \A p \in Demand : PlacedCount(result, p) + UnmatchedCount(result, p) = p.quantity

\* C2 (Thickness compatibility): in every mode each placement's piece has the
\* thickness of the sheet its layout names.
C2_ThicknessCompatible ==
    Done => \A q \in Placements(result) : PieceOf(q).thickness = SheetOf(q).thickness

\* C3 (Non-overlap): no two distinct placements of one layout intersect in
\* positive area; of the layouts pushed so far and of the result.
NoOverlapIn(lays) ==
    \A l \in 1..Len(lays) : \A i, j \in 1..Len(lays[l].cuts) :
        i # j => ~Overlaps(lays[l].cuts[i].x, lays[l].cuts[i].y,
                           lays[l].cuts[i].width, lays[l].cuts[i].height, lays[l].cuts[j])

C3_NonOverlap == NoOverlapIn(layouts) /\ NoOverlapIn(result.layouts)

\* A run that ended with two placements on one sheet.
C3_Witness ==
    Done /\ \E l \in 1..Len(result.layouts) : Len(result.layouts[l].cuts) >= 2

\* C4 (Bounds): every placement of the result lies inside its hosting sheet.
C4_Bounds ==
    Done => \A q \in Placements(result) :
        /\ 0 <= q.cut.x
        /\ 0 <= q.cut.y
        /\ q.cut.x + q.cut.width <= SheetOf(q).width
        /\ q.cut.y + q.cut.height <= SheetOf(q).height

\* A run that ended with a placement away from the sheet's origin that
\* reaches the sheet's far edges.
C4_Witness ==
    Done /\ \E q \in Placements(result) :
        /\ q.cut.x + q.cut.y > 0
        /\ q.cut.x + q.cut.width = SheetOf(q).width
        /\ q.cut.y + q.cut.height = SheetOf(q).height

\* C5 (Rotation legality): a placement has its piece's (w, h) or (h, w), and
\* when rotation is disallowed for the run it has exactly (w, h) and
\* rotated = false.
C5_RotationLegality ==
    Done => \A q \in Placements(result) :
        /\ \/ (q.cut.width = PieceOf(q).width /\ q.cut.height = PieceOf(q).height)
           \/ (q.cut.width = PieceOf(q).height /\ q.cut.height = PieceOf(q).width)
        /\ RotationDisallowed =>
              /\ q.cut.width = PieceOf(q).width
              /\ q.cut.height = PieceOf(q).height
              /\ ~q.cut.rotated

\* C6 (Availability): every layout of the result names a sheet of the input
\* whose available flag is true.
C6_Availability ==
    Done => \A l \in 1..Len(result.layouts) :
        \E st \in Supply : st.id = result.layouts[l].stockPieceId /\ st.available

\* A run with an unavailable sheet in the supply that still produced a layout.
C6_Witness ==
    /\ Done
    /\ Len(result.layouts) > 0
    /\ \E st \in Supply : ~st.available

\* The available sheets a piece is compatible with; the piece fits the sheet
\* only after a 90-degree rotation.
CompatibleSheets(p) == {st \in Supply : st.available /\ st.thickness = p.thickness}

FitsOnlyRotated(p, st) ==
    /\ (p.width > st.width \/ p.height > st.height)
    /\ p.height <= st.width
    /\ p.width <= st.height

NeedsRotation(p) ==
    /\ CompatibleSheets(p) # {}
    /\ \A st \in CompatibleSheets(p) : FitsOnlyRotated(p, st)

OwnedBy(lays, p) ==
    \E l \in 1..Len(lays) : \E k \in 1..Len(lays[l].cuts) : lays[l].cuts[k].cutPieceId.id = p.id

\* C8 (Policy-dependent feasibility): a piece that fits its compatible sheets
\* only after rotation is never placed in simplify-cuts mode and stays wholly
\* in unmatchedPieces, while minimize-waste with rotation allowed places it.
C8_PolicyFeasibility ==
    \A p \in Demand : NeedsRotation(p) =>
        /\ mode = "simplify-cuts" =>
              /\ ~OwnedBy(layouts, p)
              /\ Done => UnmatchedCount(result, p) = p.quantity
        /\ (mode = "minimize-waste" /\ allowRotation /\ Done) => OwnedBy(result.layouts, p)

\* C9 (Empty or fully unavailable supply): no layouts, stockUsed = 0, zero
\* waste, and every demand piece unmatched with its full quantity.
SameBag(s, t) ==
    /\ Len(s) = Len(t)
    /\ \A e \in Range(s) \cup Range(t) :
          Cardinality({k \in 1..Len(s) : s[k] = e}) = Cardinality({k \in 1..Len(t) : t[k] = e})

NoUsableSupply == \A st \in Supply : ~st.available

C9_NoUsableSupply ==
    (Done /\ NoUsableSupply) =>
        /\ result.layouts = <<>>
        /\ result.stockUsed = 0
        /\ result.totalWastePercentage.num = 0
        /\ SameBag(result.unmatchedPieces, cutPieces)

\* A run with demand, with sheets that are all unavailable.
C9_Witness ==
    /\ Done
    /\ cutPieces # <<>>
    /\ stockPieces # <<>>
    /\ NoUsableSupply
    /\ \E p, q \in Demand : p.thickness # q.thickness

\* C10 (Empty demand): the result is empty in every mode and for any supply.
C10_EmptyDemand ==
    (Done /\ cutPieces = <<>>) =>
        /\ result.layouts = <<>>
        /\ result.unmatchedPieces = <<>>
        /\ result.stockUsed = 0
        /\ result.totalWastePercentage.num = 0

\* A run without demand over a supply with an available sheet.
C10_Witness ==
    /\ Done
    /\ cutPieces = <<>>
    /\ \E st \in Supply : st.available

\* C7 (Policy is pure pre-processing): in each of the six modes optimizeCuts
\* returns exactly what matchPiecesToStock returns for the demand in the
\* table's order and the table's rotation flag.
C7_PolicyIsPreprocessing ==
    (pc = "done" /\ phase = "reference") => result = first

\* Absolute difference of two lengths.
Dist(a, b) == IF a >= b THEN a - b ELSE b - a

OnlyOfItsThickness(p) == \A q \in Demand : q.thickness = p.thickness => q = p

FitsUnturned(p, st) == p.width <= st.width /\ p.height <= st.height

\* C11 (Incompatible thickness): a demand piece whose thickness no available
\* sheet has is unmatched with its full quantity and has no placement, and a
\* piece of another thickness, alone in its thickness group and fitting one of
\* its sheets as it is, is still placed.
C11_IncompatibleThickness ==
    Done => \A p \in Demand :
        /\ CompatibleSheets(p) = {} =>
              /\ UnmatchedCount(result, p) = p.quantity
              /\ ~OwnedBy(result.layouts, p)
        /\ ( /\ \E q \in Demand : CompatibleSheets(q) = {}
             /\ OnlyOfItsThickness(p)
             /\ \E st \in CompatibleSheets(p) : FitsUnturned(p, st) )
           => OwnedBy(result.layouts, p)

\* C12 (Fail-soft packing): in a step in which the packer throws,
\* packPiecesIntoStock returns no placed piece and its input as unplaced, no
\* layout is pushed, the whole remaining demand goes on to the next sheet, and
\* the run stays in its loop, on its way to returning a result.
C12_FailSoft ==
    [][consoleErrors' # consoleErrors =>
          /\ packing'.packedPieces = <<>>
          /\ packing'.unpackedPieces = remainingPieces
          /\ layouts' = layouts
          /\ remainingPieces' = remainingPieces
          /\ sortedStock' = Tail(sortedStock)
          /\ pc' = pc
          /\ result' = result]_vars

\* A run in which the packer threw on one sheet and a later sheet took pieces.
C12_Witness ==
    /\ Done
    /\ consoleErrors > 0
    /\ result.layouts # <<>>

\* C13 (Area monotonicity): when checkStockSufficiency says the supply is not
\* sufficient, optimizeCuts leaves unmatchedPieces non-empty, in every mode.
C13_AreaMonotonicity ==
    (Done /\ ~CheckStockSufficiency(cutPieces, stockPieces).isSufficient)
        => result.unmatchedPieces # <<>>

InPercentRange(p) == 0 <= p.num /\ p.num <= 100 * p.den

\* C14 (Waste bounds): each layout's wastePercentage and the result's
\* totalWastePercentage lie between 0 and 100.
C14_WasteBounds ==
    Done =>
        /\ \A l \in 1..Len(result.layouts) : InPercentRange(result.layouts[l].wastePercentage)
        /\ InPercentRange(result.totalWastePercentage)

\* A run that ended with a sheet used in full and a sheet used in part.
C14_Witness ==
    /\ Done
    /\ \E l \in 1..Len(result.layouts) : result.layouts[l].wastePercentage.num = 0
    /\ \E l \in 1..Len(result.layouts) :
          result.layouts[l].wastePercentage.num > 50 * result.layouts[l].wastePercentage.den

\* The sheet a layout names.
SheetOfLayout(l) == CHOOSE st \in Supply : st.id = l.stockPieceId

\* C15 (Aggregate waste): totalWastePercentage is 100 * (sum over the layouts
\* of sheet area minus placed area) / (sum over the layouts of sheet area),
\* and 0 without layouts; unused sheets enter neither sum.
C15_AggregateWaste ==
    Done =>
        LET lays  == result.layouts
            waste == SumSeq([l \in 1..Len(lays) |->
                        Area(SheetOfLayout(lays[l])) - UsedArea(lays[l])])
            sheet == SumSeq([l \in 1..Len(lays) |-> Area(SheetOfLayout(lays[l]))])
            total == result.totalWastePercentage
        IN  IF lays = <<>>
            THEN total.num = 0
            ELSE total.num * sheet = 100 * waste * total.den

\* A run that used one sheet in part and left an available sheet unused.
C15_Witness ==
    /\ Done
    /\ result.layouts # <<>>
    /\ result.totalWastePercentage.num > 0
    /\ \E st \in Supply :
          /\ st.available
          /\ \A l \in 1..Len(result.layouts) : result.layouts[l].stockPieceId # st.id

\* C16 (Sufficiency estimate): requiredArea is the sum of width * height *
\* quantity over the demand, availableArea the sum of width * height over the
\* available sheets, shortfall = max(0, requiredArea - availableArea), and
\* isSufficient holds exactly when shortfall = 0.
C16_SufficiencyEstimate ==
    pc = "checked" =>
        LET required  == SumSeq([k \in 1..Len(cutPieces) |->
                            cutPieces[k].width * cutPieces[k].height * cutPieces[k].quantity])
            available == SumSeq([k \in 1..Len(stockPieces) |->
                            IF stockPieces[k].available THEN Area(stockPieces[k]) ELSE 0])
        IN  /\ sufficiency.requiredArea = required
            /\ sufficiency.availableArea = available
            /\ sufficiency.shortfall = (IF required > available THEN required - available ELSE 0)
            /\ sufficiency.isSufficient <=> (sufficiency.shortfall = 0)

\* A check of a demand against a supply with an unavailable sheet, where the
\* available sheets fall short.
C16_Witness ==
    /\ pc = "checked"
    /\ \E st \in Supply : ~st.available
    /\ \E st \in Supply : st.available
    /\ sufficiency.shortfall > 0

\* C17 (Cut sequence order): of two placements whose y differ by 10 or more
\* the one with the smaller y has the lower cutSequence, and of two whose y
\* differ by less than 10 the one with the smaller x has it.
C17_CutSequenceOrder ==
    pc = "sequenced" =>
        \A i, j \in 1..Len(sequenced) :
            LET a == sequenced[i]
                b == sequenced[j]
            IN  /\ (Dist(a.y, b.y) >= 10 /\ a.y < b.y) => a.cutSequence < b.cutSequence
                /\ (Dist(a.y, b.y) < 10 /\ a.x < b.x) => a.cutSequence < b.cutSequence

C19_InputsNotMutated ==
    [][cutPieces' = cutPieces /\ stockPieces' = stockPieces]_vars

\* A finished minimize-sheets run over a demand that was not in the order the
\* mode sorts it into.
C19_Witness ==
    /\ Done
    /\ mode = "minimize-sheets"
    /\ cutPieces # SortBy(cutPieces, AreaDescending(cutPieces))
    /\ result.layouts # <<>>

\* C20 (Unrecognized mode fallback): for a mode that is none of the six,
\* optimizeCuts returns what it returns in minimize-waste mode for the same
\* demand, supply and allowRotation.
C20_UnknownModeFallback ==
    (pc = "done" /\ phase = "fallback") => result = first

\* A minimize-waste call after a call with an unknown mode, over a demand
\* that is not in area order, ending with layouts.
C20_Witness ==
    /\ pc = "done"
    /\ phase = "fallback"
    /\ cutPieces # SortBy(cutPieces, AreaDescending(cutPieces))
    /\ result.layouts # <<>>

\* The call was handed a piece or a sheet that breaks the preconditions.
DegenerateInput ==
    \/ \E p \in Demand : p.width <= 0 \/ p.height <= 0 \/ p.quantity < 1
    \/ \E st \in Supply : st.width <= 0 \/ st.height <= 0

\* C21 (Degenerate input is rejected): a call that was handed a degenerate
\* piece or sheet, with demand and supply both non-empty, does not return a
\* result.
C21_DegenerateRejected ==
    (phase = "run" /\ DegenerateInput /\ cutPieces # <<>> /\ stockPieces # <<>>)
        => pc # "done"

\* The sheets of a list come in non-increasing area.
AreaOrdered(sheets) ==
    \A i, j \in 1..Len(sheets) : i < j => Area(sheets[i]) >= Area(sheets[j])

\* The layouts pushed on sheets of the thickness group in work.
GroupLayouts ==
    SelectSeq(layouts, LAMBDA l :
        \E st \in Supply : st.id = l.stockPieceId /\ st.thickness = Head(groups))

\* C22 (Sheet order and carry-forward): while matchPiecesToStock loops over
\* the sheets of one thickness group, the sheets still to try are in
\* non-increasing area order and none is larger than a sheet that already got
\* a layout, and the pieces held for the next sheet are exactly the instances
\* of the group that no earlier sheet of the group took.
C22_SheetOrderCarryForward ==
    (pc = "sheet" /\ phase = "run") =>
        /\ AreaOrdered(sortedStock)
        /\ \A l \in Range(GroupLayouts) : \A st \in Range(sortedStock) :
              Area(SheetOfLayout(l)) >= Area(st)
        /\ \A p \in Range(OfThickness(mPieces, Head(groups))) :
              UnmatchedCount([unmatchedPieces |-> remainingPieces], p)
                  = p.quantity - PlacedCount([layouts |-> GroupLayouts], p)
        /\ \A k \in 1..Len(remainingPieces) :
              \E p \in Range(OfThickness(mPieces, Head(groups))) : p.id = remainingPieces[k].id

\* C23 (Used-sheet accounting): in every result stockUsed is the number of
\* layouts, every layout holds at least one placement, and, the sheet ids of
\* the supply being distinct, no sheet id is in two layouts.
C23_UsedSheetAccounting ==
    Done =>
        /\ result.stockUsed = Len(result.layouts)
        /\ \A k \in 1..Len(result.layouts) : Len(result.layouts[k].cuts) >= 1
        /\ \A j, k \in 1..Len(result.layouts) :
              result.layouts[j].stockPieceId = result.layouts[k].stockPieceId => j = k

\* A result with a used sheet, and an available sheet of a demanded thickness
\* that was tried, took nothing, and is not counted.
C23_Witness ==
    /\ Done
    /\ result.layouts # <<>>
    /\ result.unmatchedPieces # <<>>
    /\ \E st \in Supply :
          /\ st.available
          /\ \E p \in Range(result.unmatchedPieces) : p.thickness = st.thickness
          /\ \A k \in 1..Len(result.layouts) : result.layouts[k].stockPieceId # st.id

\* What one call packPiecesIntoStock(input, ...) must hand back to account
\* for every instance of its input once.
AccountsFor(input, returned) ==
    /\ \A j, k \in 1..Len(returned.packedPieces) :
          returned.packedPieces[j].cutPieceId = returned.packedPieces[k].cutPieceId => j = k
    /\ \A j \in 1..Len(returned.packedPieces) :
          \E p \in Range(input) :
              /\ returned.packedPieces[j].cutPieceId.id = p.id
              /\ returned.packedPieces[j].cutPieceId.i \in 0..(p.quantity - 1)
    /\ \A p \in Range(input) :
          LET placed  == Cardinality({j \in 1..Len(returned.packedPieces) :
                                         returned.packedPieces[j].cutPieceId.id = p.id})
              entries == {k \in 1..Len(returned.unpackedPieces) :
                             returned.unpackedPieces[k].id = p.id}
          IN  IF placed < p.quantity
              THEN /\ Cardinality(entries) = 1
                   /\ \A k \in entries :
                         returned.unpackedPieces[k] = [p EXCEPT !.quantity = p.quantity - placed]
              ELSE entries = {}
    /\ \A k \in 1..Len(returned.unpackedPieces) :
          \E p \in Range(input) : returned.unpackedPieces[k].id = p.id

\* C24 (Per-call accounting and re-aggregation): every call of
\* packPiecesIntoStock made by a sheet loop returns each instance of its
\* input either once in packedPieces or counted once in unpackedPieces, and
\* unpackedPieces has one entry per input piece with instances left, equal to
\* that piece with its quantity replaced by the number left.
C24_PerCallAccounting ==
    [][(pc \in {"sheet", "sheets"} /\ sortedStock' # sortedStock)
          => AccountsFor(remainingPieces, packing')]_vars

\* A placement without its rank.
Unranked(q) ==
    [cutPieceId |-> q.cutPieceId, x |-> q.x, y |-> q.y,
     width |-> q.width, height |-> q.height, rotated |-> q.rotated]

\* C25 (Cut sequence is a renumbering only): calculateCutSequence returns the
\* placements it was given, each once and changed in nothing but cutSequence,
\* with the ranks 1..n each used once, and leaves the list it was given as it
\* was.
C25_RenumberingOnly ==
    pc = "sequenced" =>
        LET n == Len(placedPieces)
        IN  /\ Len(sequenced) = n
            /\ \A k \in 1..n :
                  Cardinality({j \in 1..n : Unranked(sequenced[j]) = Unranked(placedPieces[k])}) = 1
            /\ {sequenced[k].cutSequence : k \in 1..n} = 1..n
            /\ placedPieces \in PlacementLists

\* Three placements that came back in another order than they went in.
C25_Witness ==
    /\ pc = "sequenced"
    /\ Len(placedPieces) = MaxPlaced
    /\ \E k \in 1..Len(sequenced) : Unranked(sequenced[k]) # Unranked(placedPieces[k])

\* Two percentages are the same number.
SamePct(a, b) == a.num * b.den = b.num * a.den

\* C26 (Per-sheet waste agrees with the statistics calculator): for every
\* layout of a result and the sheet that hosts it, the layout's
\* wastePercentage is the wastePercentage of calculateWasteStats(layout,
\* sheet), whose usedArea is the sum of the placed width * height, whose
\* wasteArea is stockArea - usedArea, and whose wastePercentage and efficiency
\* add up to 100.
C26_WasteStatsConsistent ==
    pc = "stats" =>
        /\ Len(stats) = Len(result.layouts)
        /\ \A k \in 1..Len(stats) :
              /\ stats[k] # <<>>
              /\ LET s == stats[k][1]
                     l == result.layouts[k]
                 IN  /\ SamePct(l.wastePercentage, s.wastePercentage)
                     /\ s.stockArea = Area(SheetOfLayout(l))
                     /\ s.usedArea = SumSeq([j \in 1..Len(l.cuts) |->
                                               l.cuts[j].width * l.cuts[j].height])
                     /\ s.wasteArea = s.stockArea - s.usedArea
                     /\ s.wastePercentage.num * s.efficiency.den
                            + s.efficiency.num * s.wastePercentage.den
                          = 100 * s.wastePercentage.den * s.efficiency.den

\* Statistics over two layouts, one of them with several cuts and with waste.
C26_Witness ==
    /\ pc = "stats"
    /\ Len(stats) = 2
    /\ \E k \in 1..Len(stats) :
          /\ Len(result.layouts[k].cuts) >= 2
          /\ stats[k][1].wasteArea > 0

\* C27 (Placement identity is unique per run): over all the layouts of one
\* result no two placements carry the same cutPieceId, also when the instances
\* of one piece lie on several sheets.
C27_PlacementIdentityUnique ==
    Done =>
        \A q, o \in Placements(result) :
            q.cut.cutPieceId = o.cut.cutPieceId => q.at = o.at

\* C28 (allowRotation matters in minimize-waste only): in each of the modes
\* simplify-cuts, grain-direction, minimize-sheets, largest-first and
\* edge-alignment, optimizeCuts called with the other value of
\* options.allowRotation returns the result it returned before.
C28_RotationOptionIgnored ==
    (pc = "done" /\ phase = "flipped") => result = first

\* A call with the other allowRotation that ended with a layout holding a
\* turned placement and with pieces unmatched.
C28_Witness ==
    /\ pc = "done"
    /\ phase = "flipped"
    /\ result.unmatchedPieces # <<>>
    /\ \E q \in Placements(result) : q.cut.rotated

\* The store after a callback whose optimizeCuts returned r.
Stored(r) ==
    [store EXCEPT !.optimizationResults = <<r.layouts>>,
                  !.unmatchedPieces = r.unmatchedPieces,
                  !.totalWastePercentage = r.totalWastePercentage,
                  !.isOptimizing = FALSE]

\* The store after a callback whose optimizeCuts threw.
Caught ==
    [store EXCEPT !.optimizationResults = <<>>,
                  !.unmatchedPieces = callback.cutPieces,
                  !.totalWastePercentage = ZeroPct,
                  !.isOptimizing = FALSE]

\* How far a running callback is from its end: the sheets, or the thickness
\* groups, its loop has still to visit.
CallbackRank ==
    CASE pc = "idle"      -> 0
      [] pc = "done"      -> 1
      [] pc = "sheets"    -> 2 + Len(sortedStock)
      [] pc = "thickness" -> 2 + Len(groups)
      [] OTHER            -> 3 + MaxPieces + MaxEdits + MaxRuns

CallbackPending == timers # <<>>

\* C30 (Loading flag covers pending runs): between the store's actions and
\* callbacks, isOptimizing is true whenever a callback is pending, and the
\* result a callback is about to store comes from the stock list of the
\* moment runOptimization was called: each of its layouts is on a sheet that
\* was in the list then, available and with the sizes it had then, and it has
\* no layout when the list was empty then.
C30_FlagCoversPendingRuns ==
    /\ (phase = "store" /\ pc = "idle" /\ CallbackPending) => store.isOptimizing
    /\ (phase = "store" /\ pc = "done") =>
          \A k \in 1..Len(result.layouts) :
              \E j \in 1..Len(callback.stockAtCall) :
                  /\ callback.stockAtCall[j].id = result.layouts[k].stockPieceId
                  /\ callback.stockAtCall[j].available
                  /\ \E st \in Range(stockPieces) :
                        /\ st.id = result.layouts[k].stockPieceId
                        /\ st.width = callback.stockAtCall[j].width
                        /\ st.height = callback.stockAtCall[j].height

====
